---- MODULE Spec2Model ----
(***************************************************************************)
(* Model of the paku-iot OTA subsystem: the OTA REST service               *)
(* (stack/ota-service/ota_service.py) and the MQTT collector's OTA handler *)
(* (stack/collector/collector.py), both writing the same PostgreSQL        *)
(* tables: devices, firmware_releases, rollout_configurations,             *)
(* device_update_status and ota_events.                                    *)
(*                                                                         *)
(* SQL NULL / Python None is the empty sequence <<>>, a present value x is *)
(* <<x>>.  Timestamps are readings of the clock `now` (SQL NOW()), which   *)
(* advances between any two requests or statements.                        *)
(*                                                                         *)
(* Columns no handler reads back and no property mentions are left out:    *)
(* devices.last_seen, the file and checksum columns of firmware_releases,  *)
(* name and created_by of rollout_configurations, the timestamps of        *)
(* ota_events.  created_at order is the order of the rows.                 *)
(*                                                                         *)
(* Spec        one handler at a time over a catalog left by the            *)
(*             administrator: firmware checks, status reports, MQTT OTA    *)
(*             messages.                                                   *)
(* SpecRollout uploads, rollout creation and firmware checks.              *)
(* SpecConc    two handlers at once, one SQL statement at a time.          *)
(* SpecEventError  status reports and results whose audit INSERT fails.    *)
(* SpecTargeting   a percentage policy being raised, and firmware checks.  *)
(* SpecDevices     two handlers at once, for two different devices.        *)
(* SpecEligibility firmware checks under every kind of policy row.         *)
(* SpecPolicies    several policies for one firmware, and firmware checks. *)
(* SpecCollector   MQTT messages through on_message: topics, bodies and    *)
(*                 storage errors, over an earlier attempt history.        *)
(* SpecHealth      firmware checks, status reports and health probes.      *)
(***************************************************************************)
EXTENDS Integers, Sequences, FiniteSets, TLC

VARIABLES
    devices,    \* table devices: device_id -> <<>> or <<[device_model, current_firmware_version]>>
    releases,   \* table firmware_releases, in creation order
    rollouts,   \* table rollout_configurations, in creation order
    attempts,   \* table device_update_status, row id = position
    events,     \* table ota_events, in insertion order
    now,        \* the database clock
    resp,       \* what the last handler returned to its caller
    sess,       \* statement-level runs: the request each session handles and its position
    base,       \* device_update_status as it was when the concurrent sessions began
    collector   \* the collector process: its network loop and the exceptions it has logged

vars == <<devices, releases, rollouts, attempts, events, now, resp, sess, base, collector>>

----------------------------------------------------------------------------
(* Bounds of the model *)

\* the clock stops here: the number of requests (or statements) of one run
MaxTime == 2

----------------------------------------------------------------------------
(* Values *)

Null == <<>>
Some(x) == <<x>>

Devices == {"d1", "esp32-002"}
Models == {"esp32"}
Versions == {"1.0.0", "1.1.0"}
ErrText == "checksum mismatch"

\* UpdateStatus.status pattern
Statuses == {"pending", "downloading", "downloaded", "installing",
             "success", "failed", "rolled_back"}

\* dict.get(key, default)
Get(p, k, dflt) == IF k \in DOMAIN p THEN p[k] ELSE dflt

----------------------------------------------------------------------------
(* Rollout targeting *)

\* int(hashlib.sha256(device_id.encode()).hexdigest(), 16) % 100
HashBucket(device_id) ==
    CASE device_id = "d1" -> 85
      [] device_id = "esp32-002" -> 45
      [] device_id = "esp32-001" -> 6
      [] device_id = "d2" -> 56
      [] device_id = "esp32-034" -> 0
      [] device_id = "esp32-042" -> 99

_percentage_match_inclusive(device_id, percentage) ==
    HashBucket(device_id) <= percentage

_percentage_match_window(device_id, percentage) ==
    IF percentage >= 100 THEN TRUE
    ELSE IF percentage <= 0 THEN FALSE
    ELSE /\ HashBucket(device_id) < percentage
         /\ HashBucket(device_id) >= percentage - 50

_percentage_match(device_id, percentage) ==
    IF percentage >= 100 THEN TRUE
    ELSE IF percentage <= 0 THEN FALSE
    ELSE HashBucket(device_id) < percentage

\* Python values a target_filter can be: a str holding JSON text, or what
\* json.loads returns (a list of strings is the set of its elements)
PyStr(s) == [py |-> "str", v |-> s]
PyInt(n) == [py |-> "int", v |-> n]
PyList(elems) == [py |-> "list", v |-> elems]
PyDict(items) == [py |-> "dict", v |-> items]

\* bool(x) of an optional Python value: None, "", [] and {} are false
Truthy(x) ==
    /\ x # Null
    /\ x[1].py = "str" => x[1].v # ""
    /\ x[1].py = "list" => x[1].v # {}
    /\ x[1].py = "dict" => DOMAIN x[1].v # {}
    /\ x[1].py = "int" => x[1].v # 0

\* json.loads(text) for the texts used here; <<>> when it raises
json_loads(text) ==
    CASE text = "{\"device_ids\": [\"d1\", \"d2\"]}"
             -> Some(PyDict([device_ids |-> PyList({"d1", "d2"})]))
      [] text = "{\"device_ids\": \"d1\"}"
             -> Some(PyDict([device_ids |-> PyStr("d1")]))
      [] text = "{\"groups\": [\"beta\"]}"
             -> Some(PyDict([groups |-> PyList({"beta"})]))
      [] text = "[\"d1\"]" -> Some(PyList({"d1"}))
      [] text = "{\"target_version\": \"1.1.0\"}"
             -> Some(PyDict([target_version |-> "1.1.0"]))
      [] text = "{\"state\": \"installing\", \"percent\": 90, \"target_version\": \"1.1.0\"}"
             -> Some(PyDict([state |-> "installing", percent |-> 90,
                             target_version |-> "1.1.0"]))
      [] text = "{\"success\": true, \"target_version\": \"1.1.0\"}"
             -> Some(PyDict([success |-> TRUE, target_version |-> "1.1.0"]))
      [] text = "{\"success\": false, \"message\": \"checksum mismatch\"}"
             -> Some(PyDict([success |-> FALSE, message |-> ErrText]))
      [] OTHER -> Null

\* the outcome of an expression that can raise
Returned(value) == [raised |-> FALSE, value |-> value]
Raised == [raised |-> TRUE, value |-> FALSE]

\* needle in text, for str operands: substring
IsSubstring(needle, text) ==
    \/ needle = text
    \/ needle = ""
    \/ text = "d1,d2" /\ needle \in {"d1", "d2"}

\* x in c: membership in a list, key of a dict, substring of a str,
\* TypeError for anything else
PyIn(x, c) ==
    IF c.py = "list" THEN Returned(x \in c.v)
    ELSE IF c.py = "dict" THEN Returned(x \in DOMAIN c.v)
    ELSE IF c.py = "str" THEN Returned(IsSubstring(x, c.v))
    ELSE Raised

\* the try block of the "specific" branch
SpecificTry(device_id, target_filter) ==
    LET loaded == IF target_filter.py = "str" THEN json_loads(target_filter.v)
                  ELSE Some(target_filter)
    IN IF loaded = Null THEN Raised
       ELSE IF loaded[1].py # "dict" THEN Raised
       ELSE PyIn(device_id, Get(loaded[1].v, "device_ids", PyList({})))

_check_device_eligibility_specific_pct(device_id, target_type, target_filter, rollout_percentage) ==
    IF target_type = "specific" THEN
        IF ~Truthy(target_filter) THEN FALSE
        ELSE LET r == SpecificTry(device_id, target_filter[1])
             IN IF r.raised THEN FALSE
                ELSE r.value /\ _percentage_match(device_id, rollout_percentage)
    ELSE IF target_type \in {"all", "canary", "group"}
         THEN _percentage_match(device_id, rollout_percentage)
    ELSE FALSE

_check_device_eligibility(device_id, target_type, target_filter, rollout_percentage) ==
    IF target_type = "all" THEN _percentage_match(device_id, rollout_percentage)
    ELSE IF target_type = "specific" THEN
        IF ~Truthy(target_filter) THEN FALSE
        ELSE LET r == SpecificTry(device_id, target_filter[1])
             IN IF r.raised THEN FALSE ELSE r.value
    ELSE IF target_type = "canary" THEN _percentage_match(device_id, rollout_percentage)
    ELSE IF target_type = "group" THEN _percentage_match(device_id, rollout_percentage)
    ELSE FALSE

----------------------------------------------------------------------------
(* Queries *)

\* SELECT ... FROM firmware_releases WHERE device_model = m
\*   ORDER BY created_at DESC LIMIT 1    (<<>> when there is no row)
LatestRelease(m) ==
    LET idx == {i \in 1..Len(releases) : releases[i].device_model = m}
    IN IF idx = {} THEN Null
       ELSE Some(releases[CHOOSE i \in idx : \A j \in idx : j <= i])

ActiveRolloutAnyState(v, m) ==
    LET idx == {i \in 1..Len(rollouts) :
                    /\ rollouts[i].firmware_version = v
                    /\ rollouts[i].device_model = m}
    IN IF idx = {} THEN Null
       ELSE Some(rollouts[CHOOSE i \in idx : \A j \in idx : j <= i])

OldestActiveRollout(v, m) ==
    LET idx == {i \in 1..Len(rollouts) :
                    /\ rollouts[i].firmware_version = v
                    /\ rollouts[i].device_model = m
                    /\ rollouts[i].is_active}
    IN IF idx = {} THEN Null
       ELSE Some(rollouts[CHOOSE i \in idx : \A j \in idx : i <= j])

\* SELECT ... FROM rollout_configurations WHERE firmware_version = v
\*   AND device_model = m AND is_active = true ORDER BY created_at DESC LIMIT 1
ActiveRollout(v, m) ==
    LET idx == {i \in 1..Len(rollouts) :
                    /\ rollouts[i].firmware_version = v
                    /\ rollouts[i].device_model = m
                    /\ rollouts[i].is_active}
    IN IF idx = {} THEN Null
       ELSE Some(rollouts[CHOOSE i \in idx : \A j \in idx : j <= i])

LatestIdsAnyDevice(rows, d) ==
    {i \in 1..Len(rows) : \A j \in 1..Len(rows) :
                             rows[j].reported_at[1] <= rows[i].reported_at[1]}

\* The ids the sub-select "SELECT id FROM device_update_status WHERE
\* device_id = d ORDER BY reported_at DESC LIMIT 1" can return over the rows
\* it reads: the rows of d with the greatest reported_at ({} when d has none).
LatestIds(rows, d) ==
    LET mine == {i \in 1..Len(rows) : rows[i].device_id = d}
    IN {i \in mine : \A j \in mine : rows[j].reported_at[1] <= rows[i].reported_at[1]}

----------------------------------------------------------------------------
(* Rows written *)

Event(event_type, device_id, firmware_version, event_data) ==
    [event_type |-> event_type, device_id |-> device_id,
     firmware_version |-> firmware_version, event_data |-> event_data]

\* column default of device_update_status.reported_at, used by the INSERT of
\* report_update_status, which names no reported_at
ReportedAtDefault(t) == Some(t)

\* INSERT INTO device_update_status of report_update_status
ReportRow(rows, d, v, s, err, pct, t) ==
    [id |-> Len(rows) + 1, device_id |-> d, firmware_version |-> v,
     status |-> s, error_message |-> err, progress_percent |-> pct,
     started_at |-> IF s = "downloading" THEN Some(t) ELSE Null,
     completed_at |-> IF s \in {"success", "failed"} THEN Some(t) ELSE Null,
     reported_at |-> ReportedAtDefault(t)]

\* INSERT INTO device_update_status of handle_ota_message, ota_type "status"
AckRow(rows, d, v, t) ==
    [id |-> Len(rows) + 1, device_id |-> d, firmware_version |-> v,
     status |-> "pending", error_message |-> Null, progress_percent |-> Null,
     started_at |-> Some(t), completed_at |-> Null, reported_at |-> Some(t)]

----------------------------------------------------------------------------
(* What a handler returns *)

\* a request arrives later than everything before it
Tick == now < MaxTime /\ now' = now + 1

Response(op, device_id, http, update_available, latest_version) ==
    [op |-> op, device_id |-> device_id, http |-> http,
     update_available |-> update_available, latest_version |-> latest_version,
     detail |-> Null]

\* the 422 of validation_exception_handler; detail names the offending field
Unprocessable(op, device_id, loc) ==
    [Response(op, device_id, 422, FALSE, Null) EXCEPT !.detail = loc]

NoResponse == Response("none", "", 0, FALSE, Null)

\* CollectorApp.start: the database connection is open and loop_forever is
\* delivering messages to on_message; nothing has been logged as failed
Started == [state |-> "running", errors |-> 0]

----------------------------------------------------------------------------
(* GET /api/firmware/check *)

\* INSERT INTO devices ... ON CONFLICT (device_id) DO UPDATE SET
\*   current_firmware_version = ..., last_seen = NOW()
UpsertDevice(tbl, d, m, cur) ==
    [tbl EXCEPT ![d] =
        IF tbl[d] = Null
        THEN Some([device_model |-> m, current_firmware_version |-> cur])
        ELSE Some([tbl[d][1] EXCEPT !.current_firmware_version = cur])]

UpdateOfferedNoRollout(d, m, cur) ==
    LET rel == LatestRelease(m)
    IN /\ rel # Null
       /\ rel[1].version # cur

UpdateOfferedAnyRollout(d, m, cur) ==
    LET rel == LatestRelease(m)
    IN /\ rel # Null
       /\ rel[1].version # cur
       /\ LET rollout == ActiveRolloutAnyState(rel[1].version, m)
          IN /\ rollout # Null
             /\ _check_device_eligibility(d, rollout[1].target_type,
                    rollout[1].target_filter, rollout[1].rollout_percentage)

\* the decision of check_firmware_update: the early returns with
\* update_available=False, in the order of the code
UpdateOffered(d, m, cur) ==
    LET rel == LatestRelease(m)
    IN /\ rel # Null
       /\ rel[1].version # cur
       /\ LET rollout == ActiveRollout(rel[1].version, m)
          IN /\ rollout # Null
             /\ _check_device_eligibility(d, rollout[1].target_type,
                    rollout[1].target_filter, rollout[1].rollout_percentage)

check_firmware_update(d, m, cur) ==
    LET rel == LatestRelease(m)
        offered == UpdateOffered(d, m, cur)
    IN /\ Tick
       /\ devices' = UpsertDevice(devices, d, m, cur)
       /\ events' = IF offered
                    THEN Append(events, Event("update_started", Some(d),
                             rel[1].version, Some([from_version |-> cur])))
                    ELSE events
       /\ resp' = Response("check", d, 200, offered,
                           IF rel = Null THEN Null ELSE Some(rel[1].version))
       /\ UNCHANGED <<releases, rollouts, attempts, sess, base, collector>>

----------------------------------------------------------------------------
(* POST /api/device/{device_id}/update-status *)

\* UPDATE devices SET current_firmware_version = v WHERE device_id = d
SetDeviceVersion(tbl, d, v) ==
    [tbl EXCEPT ![d] =
        IF tbl[d] = Null THEN Null
        ELSE Some([tbl[d][1] EXCEPT !.current_firmware_version = v])]

\* the ota_events row report_update_status writes for a status, if any
ReportEvents(d, v, s, err) ==
    IF s = "success" THEN <<Event("update_completed", Some(d), v, Null)>>
    ELSE IF s = "failed"
         THEN <<Event("update_failed", Some(d), v, Some([error |-> err]))>>
         ELSE <<>>

ValidationErrorStatusUnchecked(s, pct) ==
    IF pct # Null /\ pct[1] \notin 0..100 THEN Some("progress_percent")
    ELSE Null

\* validation of the UpdateStatus body: the first field that fails its
\* constraint, <<>> when the body is valid
ValidationError(s, pct) ==
    IF s \notin Statuses THEN Some("status")
    ELSE IF pct # Null /\ pct[1] \notin 0..100 THEN Some("progress_percent")
    ELSE Null

report_update_status_any_terminal(d, v, s, err, pct) ==
    IF ValidationError(s, pct) # Null
    THEN /\ Tick
         /\ resp' = Unprocessable("report", d, ValidationError(s, pct))
         /\ UNCHANGED <<devices, releases, rollouts, attempts, events, sess, base, collector>>
    ELSE /\ Tick
         /\ attempts' = Append(attempts, ReportRow(attempts, d, v, s, err, pct, now'))
         /\ devices' = IF s \in {"success", "failed"}
                       THEN SetDeviceVersion(devices, d, v) ELSE devices
         /\ events' = events \o ReportEvents(d, v, s, err)
         /\ resp' = Response("report", d, 200, FALSE, Null)
         /\ UNCHANGED <<releases, rollouts, sess, base, collector>>

report_update_status(d, v, s, err, pct) ==
    IF ValidationError(s, pct) # Null
    THEN \* RequestValidationError: 422 before the handler body runs
         /\ Tick
         /\ resp' = Unprocessable("report", d, ValidationError(s, pct))
         /\ UNCHANGED <<devices, releases, rollouts, attempts, events, sess, base, collector>>
    ELSE /\ Tick
         /\ attempts' = Append(attempts, ReportRow(attempts, d, v, s, err, pct, now'))
         /\ devices' = IF s = "success" THEN SetDeviceVersion(devices, d, v) ELSE devices
         /\ events' = events \o ReportEvents(d, v, s, err)
         /\ resp' = Response("report", d, 200, FALSE, Null)
         /\ UNCHANGED <<releases, rollouts, sess, base, collector>>

----------------------------------------------------------------------------
(* MQTT {site}/edge/{device_id}/ota/{status|progress|result} *)

\* str.lower() on the phase labels devices send
Lower(s) ==
    CASE s = "Installing" -> "installing"
      [] s = "Verifying" -> "verifying"
      [] OTHER -> s

\* payload.get("target_version", payload.get("version", "unknown"))
PayloadVersion(payload) ==
    Get(payload, "target_version", Get(payload, "version", "unknown"))

\* the status a progress message is mapped to
ProgressStatus(payload) ==
    LET state == Lower(Get(payload, "state", ""))
    IN IF state = "installing" THEN "installing"
       ELSE IF state = "verifying" THEN "downloaded"
       ELSE "downloading"

\* UPDATE device_update_status SET status, progress_percent, reported_at
\*   WHERE id = id
ProgressUpdate(rows, id, payload, t) ==
    [rows EXCEPT ![id] = [@ EXCEPT !.status = ProgressStatus(payload),
                                   !.progress_percent = Some(Get(payload, "percent", 0)),
                                   !.reported_at = Some(t)]]

ResultErrDropped(payload) == Null

\* error_msg = None if success else payload.get("message")
ResultErr(payload) ==
    IF Get(payload, "success", FALSE) THEN Null
    ELSE IF "message" \in DOMAIN payload THEN Some(payload.message) ELSE Null

ResultUpdateOnlyAfterInstalling(rows, id, payload, t) ==
    LET success == Get(payload, "success", FALSE)
    IN IF rows[id].status # "installing" THEN rows
       ELSE [rows EXCEPT ![id] = [@ EXCEPT !.status = IF success THEN "success" ELSE "failed",
                                           !.progress_percent = IF success THEN Some(100) ELSE @,
                                           !.error_message = ResultErr(payload),
                                           !.completed_at = Some(t),
                                           !.reported_at = Some(t)]]

\* UPDATE device_update_status SET status, progress_percent, error_message,
\*   completed_at, reported_at WHERE id = id
ResultUpdate(rows, id, payload, t) ==
    LET success == Get(payload, "success", FALSE)
    IN [rows EXCEPT ![id] = [@ EXCEPT !.status = IF success THEN "success" ELSE "failed",
                                      !.progress_percent = IF success THEN Some(100) ELSE @,
                                      !.error_message = ResultErr(payload),
                                      !.completed_at = Some(t),
                                      !.reported_at = Some(t)]]

\* a tracking row per device: the acknowledgement replaces the device's rows
handle_ota_status_replacing(d, payload) ==
    LET kept == SelectSeq(attempts, LAMBDA r : r.device_id # d)
    IN /\ Tick
       /\ attempts' = Append(kept, AckRow(kept, d, PayloadVersion(payload), now'))
       /\ events' = Append(events, Event("update_started", Some(d),
                                         PayloadVersion(payload), Some(payload)))
       /\ resp' = Response("ota_status", d, 0, FALSE, Null)
       /\ UNCHANGED <<devices, releases, rollouts, sess, base, collector>>

handle_ota_status(d, payload) ==
    /\ Tick
    /\ attempts' = Append(attempts, AckRow(attempts, d, PayloadVersion(payload), now'))
    /\ events' = Append(events, Event("update_started", Some(d),
                                      PayloadVersion(payload), Some(payload)))
    /\ resp' = Response("ota_status", d, 0, FALSE, Null)
    /\ UNCHANGED <<devices, releases, rollouts, sess, base, collector>>

RECURSIVE ProgressUpdateAll(_, _, _, _)
ProgressUpdateAll(rows, ids, payload, t) ==
    IF ids = {} THEN rows
    ELSE LET id == CHOOSE i \in ids : TRUE
         IN ProgressUpdateAll(ProgressUpdate(rows, id, payload, t), ids \ {id}, payload, t)

handle_ota_progress_every_row(d, payload) ==
    /\ Tick
    /\ attempts' = ProgressUpdateAll(attempts,
                       {i \in 1..Len(attempts) : attempts[i].device_id = d}, payload, now')
    /\ resp' = Response("ota_progress", d, 0, FALSE, Null)
    /\ UNCHANGED <<devices, releases, rollouts, events, sess, base, collector>>

handle_ota_progress(d, payload) ==
    /\ Tick
    /\ IF LatestIds(attempts, d) = {}
       THEN attempts' = attempts
       ELSE \E id \in LatestIds(attempts, d) :
                attempts' = ProgressUpdate(attempts, id, payload, now')
    /\ resp' = Response("ota_progress", d, 0, FALSE, Null)
    /\ UNCHANGED <<devices, releases, rollouts, events, sess, base, collector>>

handle_ota_result(d, payload) ==
    /\ Tick
    /\ IF LatestIds(attempts, d) = {}
       THEN attempts' = attempts
       ELSE \E id \in LatestIds(attempts, d) :
                attempts' = ResultUpdate(attempts, id, payload, now')
    /\ events' = Append(events,
                    Event(IF Get(payload, "success", FALSE)
                          THEN "update_completed" ELSE "update_failed",
                          Some(d), PayloadVersion(payload), Some(payload)))
    /\ resp' = Response("ota_result", d, 0, FALSE, Null)
    /\ UNCHANGED <<devices, releases, rollouts, sess, base, collector>>

----------------------------------------------------------------------------
(* Administrative endpoints *)

\* settings.api_key as deployed
ApiKeySetting == Some("secret")

verify_api_key_open(x_api_key) == TRUE

\* verify_api_key: TRUE when the request is let through
verify_api_key(x_api_key) ==
    ~(ApiKeySetting # Null /\ x_api_key # ApiKeySetting)

Release(v, m) == [version |-> v, device_model |-> m]

Rollout(v, m, tt, tf, pct, active) ==
    [firmware_version |-> v, device_model |-> m, target_type |-> tt,
     target_filter |-> tf, rollout_percentage |-> pct, is_active |-> active]

\* POST /api/admin/firmware/upload
upload_firmware(v, m, x_api_key) ==
    /\ Tick
    /\ IF ~verify_api_key(x_api_key)
       THEN /\ resp' = Response("upload", "", 401, FALSE, Null)
            /\ UNCHANGED <<releases, events>>
       ELSE /\ releases' = Append(releases, Release(v, m))
            /\ events' = Append(events, Event("firmware_uploaded", Null, v,
                                              Some([device_model |-> m])))
            /\ resp' = Response("upload", "", 200, FALSE, Null)
    /\ UNCHANGED <<devices, rollouts, attempts, sess, base, collector>>

\* POST /api/admin/rollout/create; target_filter is stored as
\* json.dumps(rollout.target_filter) if rollout.target_filter else None
create_rollout(cfg, x_api_key) ==
    /\ Tick
    /\ IF ~verify_api_key(x_api_key)
       THEN /\ resp' = Response("rollout", "", 401, FALSE, Null)
            /\ UNCHANGED <<rollouts, events>>
       ELSE /\ rollouts' = Append(rollouts,
                               [cfg EXCEPT !.target_filter =
                                               IF Truthy(@) THEN @ ELSE Null])
            /\ events' = Append(events, Event("rollout_created", Null,
                               cfg.firmware_version,
                               Some([target_type |-> cfg.target_type,
                                     rollout_percentage |-> cfg.rollout_percentage])))
            /\ resp' = Response("rollout", "", 200, FALSE, Null)
    /\ UNCHANGED <<devices, releases, attempts, sess, base, collector>>

----------------------------------------------------------------------------
(* Inputs *)

KeyInputs == {Some("secret"), Some("wrong"), Null}

\* (target_type, target_filter, rollout_percentage) of a rollout request
Targetings ==
    {<<"all", Null, 100>>, <<"canary", Null, 50>>,
     <<"specific", Some(PyDict([device_ids |-> PyList({"d1"})])), 0>>,
     <<"group", Some(PyDict([groups |-> PyList({"beta"})])), 100>>}

RolloutInputs ==
    {Rollout(v, m, t[1], t[2], t[3], a) :
        v \in Versions, m \in Models, t \in Targetings, a \in BOOLEAN}

StatusInputs == Statuses \cup {"bogus"}

\* (error_message, progress_percent) of a status report
ReportExtras(s) ==
    IF s = "failed" THEN {<<Some(ErrText), Null>>, <<Null, Null>>}
    ELSE IF s = "downloading"
         THEN {<<Null, Some(50)>>, <<Null, Null>>, <<Null, Some(150)>>}
    ELSE {<<Null, Null>>}

AckPayloads ==
    {[target_version |-> "1.1.0"], [version |-> "1.0.0"], [status |-> "accepted"]}

ProgressPayloads ==
    {[percent |-> 50], [state |-> "installing", percent |-> 90],
     [state |-> "Verifying", percent |-> 150], [target_version |-> "1.0.0"],
     [state |-> "installing firmware", percent |-> 95]}

ResultPayloads ==
    {[success |-> TRUE, target_version |-> "1.1.0"],
     [success |-> FALSE, message |-> ErrText, target_version |-> "1.1.0"],
     [success |-> FALSE, version |-> "1.0.0"],
     [message |-> ErrText]}

----------------------------------------------------------------------------
(* The service and the collector, one handler at a time *)

\* catalogs the administrative endpoints can have left behind
Catalogs ==
    {<<>>,
     <<Rollout("1.1.0", "esp32", "all", Null, 100, TRUE)>>,
     <<Rollout("1.1.0", "esp32", "canary", Null, 50, TRUE)>>}

\* registries earlier firmware checks can have left behind
Registries ==
    {[d \in Devices |-> Null],
     [d \in Devices |-> Some([device_model |-> "esp32",
                              current_firmware_version |-> "1.0.0"])]}

Sessions == {"a", "b"}

Idle == [s \in Sessions |-> [req |-> Null, pc |-> 0]]

Init ==
    /\ devices \in Registries
    /\ releases = <<Release("1.0.0", "esp32"), Release("1.1.0", "esp32")>>
    /\ rollouts \in Catalogs
    /\ attempts = <<>>
    /\ events = <<>>
    /\ now = 0
    /\ resp = NoResponse
    /\ sess = Idle
    /\ base = <<>>
    /\ collector = Started

Check == \E d \in Devices, m \in Models, cur \in Versions : check_firmware_update(d, m, cur)

Report ==
    \E d \in Devices, v \in Versions, s \in StatusInputs :
        \E x \in ReportExtras(s) : report_update_status(d, v, s, x[1], x[2])

OtaStatus == \E d \in Devices, p \in AckPayloads : handle_ota_status(d, p)

OtaProgress == \E d \in Devices, p \in ProgressPayloads : handle_ota_progress(d, p)

OtaResult == \E d \in Devices, p \in ResultPayloads : handle_ota_result(d, p)

Next == Check \/ Report \/ OtaStatus \/ OtaProgress \/ OtaResult

Spec == Init /\ [][Next]_vars

----------------------------------------------------------------------------
(* The service with its administrative endpoints: catalog, policies, checks *)

\* release tables earlier uploads can have left behind
ReleaseTables ==
    {<<>>, <<Release("1.0.0", "esp32")>>,
     <<Release("1.0.0", "esp32"), Release("1.1.0", "esp32")>>}

InitRollout ==
    /\ devices \in Registries
    /\ releases \in ReleaseTables
    /\ rollouts = <<>>
    /\ attempts = <<>>
    /\ events = <<>>
    /\ now = 0
    /\ resp = NoResponse
    /\ sess = Idle
    /\ base = <<>>
    /\ collector = Started

Upload == \E v \in Versions, m \in Models, k \in KeyInputs : upload_firmware(v, m, k)

CreateRollout == \E cfg \in RolloutInputs, k \in KeyInputs : create_rollout(cfg, k)

NextRollout == Upload \/ CreateRollout \/ Check

SpecRollout == InitRollout /\ [][NextRollout]_vars

----------------------------------------------------------------------------
(* Percentage targeting: a policy for 1.1.0 whose percentage the            *)
(* administrator raises by creating a newer active policy for the same      *)
(* firmware, and devices that check in between.                             *)

\* rollout percentages: 0, 100 and both sides of every hash bucket
Percentages == {0, 1, 6, 7, 45, 46, 50, 56, 57, 85, 86, 99, 100}

\* device identifiers whose hash bucket is known
HashIds == {"d1", "esp32-002", "esp32-001", "d2", "esp32-034", "esp32-042"}

PercentageTypes == {"all", "canary", "group"}

InitTargeting ==
    /\ devices \in Registries
    /\ releases = <<Release("1.0.0", "esp32"), Release("1.1.0", "esp32")>>
    /\ rollouts \in {<<Rollout("1.1.0", "esp32", tt, Null, p, TRUE)>> :
                         tt \in PercentageTypes, p \in Percentages}
    /\ attempts = <<>>
    /\ events = <<>>
    /\ now = 0
    /\ resp = NoResponse
    /\ sess = Idle
    /\ base = <<>>
    /\ collector = Started

\* create_rollout for the same firmware and targeting with percentage p, not
\* below the percentage of the policy in force
RaisePercentage(p) ==
    LET cur == ActiveRollout("1.1.0", "esp32")[1]
    IN /\ p >= cur.rollout_percentage
       /\ create_rollout(Rollout("1.1.0", "esp32", cur.target_type, Null, p, TRUE),
                         Some("secret"))

Raise == \E p \in Percentages : RaisePercentage(p)

NextTargeting == Raise \/ Check

SpecTargeting == InitTargeting /\ [][NextTargeting]_vars

----------------------------------------------------------------------------
(* The eligibility decision over every kind of policy row: the one policy   *)
(* for 1.1.0 is drawn from the target types, filters and percentages below, *)
(* and devices check.                                                       *)

TargetTypeInputs == {"all", "canary", "specific", "group", "staged"}

\* target_filter values as _check_device_eligibility receives them
FilterInputs ==
    {Null,
     Some(PyStr("")),
     Some(PyStr("{\"device_ids\": [\"d1\", \"d2\"]}")),
     Some(PyStr("{\"device_ids\": \"d1\"}")),
     Some(PyStr("{\"groups\": [\"beta\"]}")),
     Some(PyStr("[\"d1\"]")),
     Some(PyStr("{device_ids")),
     Some(PyDict([device_ids |-> PyList({"esp32-002"})])),
     Some(PyDict([device_ids |-> PyInt(5)])),
     Some(PyDict([groups |-> PyList({"beta"})]))}

EligibilityPercentages == {0, 50, 100}

InitEligibility ==
    /\ devices \in Registries
    /\ releases = <<Release("1.0.0", "esp32"), Release("1.1.0", "esp32")>>
    /\ rollouts \in {<<Rollout("1.1.0", "esp32", tt, tf, p, TRUE)>> :
                         tt \in TargetTypeInputs, tf \in FilterInputs,
                         p \in EligibilityPercentages}
    /\ attempts = <<>>
    /\ events = <<>>
    /\ now = 0
    /\ resp = NoResponse
    /\ sess = Idle
    /\ base = <<>>
    /\ collector = Started

SpecEligibility == InitEligibility /\ [][Check]_vars

----------------------------------------------------------------------------
(* Several policies for the same firmware and model: the administrator has  *)
(* left two, and goes on creating policies while devices check.             *)

\* two policies for (1.1.0, esp32) that disagree about d1 or esp32-002,
\* older first
PolicyStacks ==
    {<<Rollout("1.1.0", "esp32", "all", Null, 100, a1),
       Rollout("1.1.0", "esp32", "canary", Null, 50, a2)>> : a1, a2 \in BOOLEAN}
    \cup {<<Rollout("1.1.0", "esp32", "canary", Null, 50, TRUE),
             Rollout("1.1.0", "esp32", "all", Null, 100, a2)>> : a2 \in BOOLEAN}

InitPolicies ==
    /\ devices \in Registries
    /\ releases = <<Release("1.0.0", "esp32"), Release("1.1.0", "esp32")>>
    /\ rollouts \in PolicyStacks
    /\ attempts = <<>>
    /\ events = <<>>
    /\ now = 0
    /\ resp = NoResponse
    /\ sess = Idle
    /\ base = <<>>
    /\ collector = Started

SpecPolicies == InitPolicies /\ [][NextRollout]_vars

----------------------------------------------------------------------------
(* The INSERT INTO ota_events of a handler fails (psycopg raises).  Both    *)
(* connections are autocommit, so the statements before it stay committed.  *)

\* report_update_status when its last statement raises: the except clause
\* answers 500
report_update_status_event_error(d, v, s, err) ==
    /\ s \in {"success", "failed"}
    /\ Tick
    /\ attempts' = Append(attempts, ReportRow(attempts, d, v, s, err, Null, now'))
    /\ devices' = IF s = "success" THEN SetDeviceVersion(devices, d, v) ELSE devices
    /\ resp' = Response("report", d, 500, FALSE, Null)
    /\ UNCHANGED <<releases, rollouts, events, sess, base, collector>>

\* handle_ota_message, ota_type "result", when its last statement raises:
\* on_message logs the exception and returns
handle_ota_result_event_error(d, payload) ==
    /\ Tick
    /\ IF LatestIds(attempts, d) = {}
       THEN attempts' = attempts
       ELSE \E id \in LatestIds(attempts, d) :
                attempts' = ResultUpdate(attempts, id, payload, now')
    /\ resp' = Response("ota_result", d, 0, FALSE, Null)
    /\ UNCHANGED <<devices, releases, rollouts, events, sess, base, collector>>

ReportEventError ==
    \E d \in Devices, v \in Versions, s \in {"success", "failed"} :
        \E x \in ReportExtras(s) : report_update_status_event_error(d, v, s, x[1])

ResultEventError ==
    \E d \in Devices, p \in ResultPayloads : handle_ota_result_event_error(d, p)

NextEventError == Report \/ OtaStatus \/ ReportEventError \/ ResultEventError

SpecEventError == Init /\ [][NextEventError]_vars

----------------------------------------------------------------------------
(* Two handlers at once, one SQL statement at a time.  The REST service and *)
(* the collector are separate processes on separate autocommit connections: *)
(* every cur.execute is a transaction of its own.  The collector handles    *)
(* one message at a time, so at most one of the two sessions is its.        *)

Request(kind, d, body) == [kind |-> kind, device_id |-> d, body |-> body]

ReportBodies ==
    {[firmware_version |-> "1.1.0", status |-> "downloading",
      error_message |-> Null, progress_percent |-> Some(50)],
     [firmware_version |-> "1.1.0", status |-> "success",
      error_message |-> Null, progress_percent |-> Null],
     [firmware_version |-> "1.1.0", status |-> "failed",
      error_message |-> Some(ErrText), progress_percent |-> Null]}

MqttKinds == {"progress", "result"}

ConcRequests ==
    {Request("report", d, b) : d \in Devices, b \in ReportBodies}
    \cup {Request("progress", d, p) : d \in Devices,
              p \in {[percent |-> 50], [state |-> "installing", percent |-> 90]}}
    \cup {Request("result", d, p) : d \in Devices,
              p \in {[success |-> TRUE, target_version |-> "1.1.0"],
                     [success |-> FALSE, message |-> ErrText, target_version |-> "1.1.0"]}}

\* device_update_status after one earlier acknowledgement or status report
BaseTables ==
    {<<>>,
     <<AckRow(<<>>, "d1", "1.1.0", 1)>>,
     <<ReportRow(<<>>, "d1", "1.1.0", "downloading", Null, Some(50), 1)>>}

\* the statements a handler executes for a request
NStmts(r) ==
    IF r.kind = "report"
    THEN 1 + (IF r.body.status = "success" THEN 1 ELSE 0)
           + Len(ReportEvents(r.device_id, r.body.firmware_version,
                              r.body.status, r.body.error_message))
    ELSE IF r.kind \in {"result", "status"} THEN 2
    ELSE IF r.kind = "check"
         THEN 1 + (IF UpdateOffered(r.device_id, r.body.device_model,
                                    r.body.current_version) THEN 1 ELSE 0)
    ELSE 1

Done(s) == sess[s].pc = NStmts(sess[s].req[1])

StatementViewAtStart(s) == base

\* the rows a statement of session s reads: with autocommit=True each
\* statement sees every row committed before it
StatementView(s) == attempts

Advance(s) ==
    /\ now' = now + 1
    /\ sess' = [sess EXCEPT ![s].pc = @ + 1]
    /\ UNCHANGED <<releases, rollouts, resp, base, collector>>

\* the statements of report_update_status, in order
StepReport(s) ==
    LET r == sess[s].req[1]
        d == r.device_id
        b == r.body
        pc == sess[s].pc
    IN /\ r.kind = "report"
       /\ ~Done(s)
       /\ Advance(s)
       /\ IF pc = 0
          THEN /\ attempts' = Append(attempts,
                       ReportRow(attempts, d, b.firmware_version, b.status,
                                 b.error_message, b.progress_percent, now'))
               /\ UNCHANGED <<devices, events>>
          ELSE IF pc = 1 /\ b.status = "success"
          THEN /\ devices' = SetDeviceVersion(devices, d, b.firmware_version)
               /\ UNCHANGED <<attempts, events>>
          ELSE /\ events' = events \o ReportEvents(d, b.firmware_version,
                                                   b.status, b.error_message)
               /\ UNCHANGED <<attempts, devices>>

\* the statement of handle_ota_message, ota_type "progress"
StepProgress(s) ==
    LET r == sess[s].req[1]
        ids == LatestIds(StatementView(s), r.device_id)
    IN /\ r.kind = "progress"
       /\ ~Done(s)
       /\ Advance(s)
       /\ IF ids = {}
          THEN attempts' = attempts
          ELSE \E id \in ids : attempts' = ProgressUpdate(attempts, id, r.body, now')
       /\ UNCHANGED <<devices, events>>

\* the statements of handle_ota_message, ota_type "result", in order
StepResult(s) ==
    LET r == sess[s].req[1]
        ids == LatestIds(StatementView(s), r.device_id)
    IN /\ r.kind = "result"
       /\ ~Done(s)
       /\ Advance(s)
       /\ IF sess[s].pc = 0
          THEN /\ IF ids = {}
                  THEN attempts' = attempts
                  ELSE \E id \in ids : attempts' = ResultUpdate(attempts, id, r.body, now')
               /\ UNCHANGED <<devices, events>>
          ELSE /\ events' = Append(events,
                       Event(IF Get(r.body, "success", FALSE)
                             THEN "update_completed" ELSE "update_failed",
                             Some(r.device_id), PayloadVersion(r.body), Some(r.body)))
               /\ UNCHANGED <<attempts, devices>>

InitConc ==
    /\ devices \in Registries
    /\ releases = <<Release("1.0.0", "esp32"), Release("1.1.0", "esp32")>>
    /\ rollouts = <<>>
    /\ base \in BaseTables
    /\ collector = Started
    /\ attempts = base
    /\ events = <<>>
    /\ now = 1
    /\ resp = NoResponse
    /\ sess \in [Sessions -> {[req |-> Some(r), pc |-> 0] : r \in ConcRequests}]
    /\ ~(\A s \in Sessions : sess[s].req[1].kind \in MqttKinds)

NextConc == \E s \in Sessions : StepReport(s) \/ StepProgress(s) \/ StepResult(s)

SpecConc == InitConc /\ [][NextConc]_vars

----------------------------------------------------------------------------
(* Two handlers at once for two different devices, one SQL statement at a   *)
(* time: any of the five device-facing operations on either side.  The      *)
(* collector finishes one message before it takes the next.                 *)

\* the statements of handle_ota_message, ota_type "status", in order
StepAck(s) ==
    LET r == sess[s].req[1]
        d == r.device_id
    IN /\ r.kind = "status"
       /\ ~Done(s)
       /\ Advance(s)
       /\ IF sess[s].pc = 0
          THEN /\ attempts' = Append(attempts,
                       AckRow(attempts, d, PayloadVersion(r.body), now'))
               /\ UNCHANGED <<devices, events>>
          ELSE /\ events' = Append(events, Event("update_started", Some(d),
                                       PayloadVersion(r.body), Some(r.body)))
               /\ UNCHANGED <<attempts, devices>>

\* the writing statements of check_firmware_update, in order
StepCheck(s) ==
    LET r == sess[s].req[1]
        d == r.device_id
    IN /\ r.kind = "check"
       /\ ~Done(s)
       /\ Advance(s)
       /\ IF sess[s].pc = 0
          THEN /\ devices' = UpsertDevice(devices, d, r.body.device_model,
                                          r.body.current_version)
               /\ UNCHANGED <<attempts, events>>
          ELSE /\ events' = Append(events, Event("update_started", Some(d),
                                LatestRelease(r.body.device_model)[1].version,
                                Some([from_version |-> r.body.current_version])))
               /\ UNCHANGED <<attempts, devices>>

\* what one device can send
DeviceRequests(d) ==
    {r \in ConcRequests : r.device_id = d}
    \cup {Request("status", d, p) : p \in {[target_version |-> "1.1.0"]}}
    \cup {Request("check", d, [device_model |-> m, current_version |-> cur]) :
              m \in Models, cur \in Versions}

\* device_update_status after earlier acknowledgements or status reports
\* of the two devices
BaseTablesTwo ==
    {<<>>,
     <<AckRow(<<>>, "d1", "1.1.0", 1)>>,
     <<AckRow(<<>>, "d1", "1.1.0", 0),
       [AckRow(<<>>, "esp32-002", "1.1.0", 1) EXCEPT !.id = 2]>>,
     <<ReportRow(<<>>, "esp32-002", "1.1.0", "downloading", Null, Some(50), 0),
       [AckRow(<<>>, "d1", "1.1.0", 1) EXCEPT !.id = 2]>>}

CollectorKinds == {"status", "progress", "result"}

\* the collector is not in the middle of another session's message: paho
\* calls on_message for one message at a time
CollectorFree(s) ==
    \A t \in Sessions \ {s} :
        sess[t].req[1].kind \in CollectorKinds => (sess[t].pc = 0 \/ Done(t))

CollectorAck(s) == CollectorFree(s) /\ StepAck(s)

CollectorProgress(s) == CollectorFree(s) /\ StepProgress(s)

CollectorResult(s) == CollectorFree(s) /\ StepResult(s)

InitDevices ==
    /\ devices \in Registries
    /\ releases = <<Release("1.0.0", "esp32"), Release("1.1.0", "esp32")>>
    /\ rollouts = <<Rollout("1.1.0", "esp32", "all", Null, 100, TRUE)>>
    /\ base \in BaseTablesTwo
    /\ collector = Started
    /\ attempts = base
    /\ events = <<>>
    /\ now = 1
    /\ resp = NoResponse
    /\ sess \in {[s \in Sessions |-> [req |-> Some(IF s = "a" THEN ra ELSE rb), pc |-> 0]] :
                     ra \in DeviceRequests("d1"), rb \in DeviceRequests("esp32-002")}

NextDevices ==
    \E s \in Sessions :
        \/ StepCheck(s)
        \/ StepReport(s)
        \/ CollectorAck(s)
        \/ CollectorProgress(s)
        \/ CollectorResult(s)

SpecDevices == InitDevices /\ [][NextDevices]_vars

----------------------------------------------------------------------------
(* The collector's MQTT callback.  Topics and bodies arrive as text; the   *)
(* tables the callback writes for telemetry (measurements, edge status and *)
(* configuration) are not part of this model.                              *)

\* topic.split("/") for the topics used here
Split(topic) ==
    CASE topic = "paku/edge/d1/ota/status" -> <<"paku", "edge", "d1", "ota", "status">>
      [] topic = "paku/edge/d1/ota/progress" -> <<"paku", "edge", "d1", "ota", "progress">>
      [] topic = "paku/edge/d1/ota/result" -> <<"paku", "edge", "d1", "ota", "result">>
      [] topic = "paku/edge/esp32-002/ota/result"
             -> <<"paku", "edge", "esp32-002", "ota", "result">>
      [] topic = "paku/edge/d1/ota/command" -> <<"paku", "edge", "d1", "ota", "command">>
      [] topic = "paku/ruuvi/d1/ota/status" -> <<"paku", "ruuvi", "d1", "ota", "status">>
      [] topic = "paku/edge/d1/cfg/result" -> <<"paku", "edge", "d1", "cfg", "result">>
      [] topic = "paku/edge/d1/ota/status/now"
             -> <<"paku", "edge", "d1", "ota", "status", "now">>
      [] topic = "paku/edge/d1/status" -> <<"paku", "edge", "d1", "status">>
      [] topic = "paku/edge/d1/ota" -> <<"paku", "edge", "d1", "ota">>
      [] OTHER -> <<topic>>

\* f"ota_{ota_type}"
OtaTopicType(ota_type) ==
    CASE ota_type = "status" -> "ota_status"
      [] ota_type = "progress" -> "ota_progress"
      [] ota_type = "result" -> "ota_result"

\* topic_type.startswith("ota_")
StartsWithOta(topic_type) == topic_type \in {"ota_status", "ota_progress", "ota_result"}

\* topic_type[4:]
StripOta(topic_type) ==
    CASE topic_type = "ota_status" -> "status"
      [] topic_type = "ota_progress" -> "progress"
      [] topic_type = "ota_result" -> "result"

Parsed(site_id, system, device_id, topic_type) ==
    Some([site_id |-> site_id, system |-> system, device_id |-> device_id,
          topic_type |-> topic_type])

parse_topic_any_five(topic) ==
    LET parts == Split(topic)
    IN IF Len(parts) = 5
       THEN IF parts[5] \in {"status", "progress", "result"}
            THEN Parsed(parts[1], parts[2], parts[3], OtaTopicType(parts[5]))
            ELSE Null
       ELSE IF Len(parts) # 4 THEN Null
       ELSE IF parts[4] \notin {"data", "status", "config"} THEN Null
       ELSE Parsed(parts[1], parts[2], parts[3], parts[4])

\* (site_id, system, device_id, topic_type), or None
parse_topic(topic) ==
    LET parts == Split(topic)
    IN IF Len(parts) = 5 /\ parts[2] = "edge" /\ parts[4] = "ota"
       THEN IF parts[5] \in {"status", "progress", "result"}
            THEN Parsed(parts[1], parts[2], parts[3], OtaTopicType(parts[5]))
            ELSE Null
       ELSE IF Len(parts) # 4 THEN Null
       ELSE IF parts[4] \notin {"data", "status", "config"} THEN Null
       ELSE Parsed(parts[1], parts[2], parts[3], parts[4])

\* the branch of handle_ota_message for ota_type; no branch, no statement
handle_ota_message(d, ota_type, payload) ==
    IF ota_type = "status" THEN handle_ota_status(d, payload)
    ELSE IF ota_type = "progress" THEN handle_ota_progress(d, payload)
    ELSE IF ota_type = "result" THEN handle_ota_result(d, payload)
    ELSE /\ Tick
         /\ resp' = Response("ota_none", d, 0, FALSE, Null)
         /\ UNCHANGED <<devices, releases, rollouts, attempts, events, sess, base, collector>>

\* on_message returned without a handler having run; detail is the log line
Dropped(why) == [Response("on_message", "", 0, FALSE, Null) EXCEPT !.detail = Some(why)]

OnExceptionPropagates(c) == [c EXCEPT !.state = "crashed"]

\* except Exception as exc: logger.exception(...), and on_message returns
OnException(c) == [c EXCEPT !.errors = @ + 1]

\* the callback paho runs for one message; storage_ok says whether the
\* first statement the handler executes succeeds.  self.conn is set by
\* start() before the loop runs, so it is never None here.
on_message(topic, payload_raw, storage_ok) ==
    LET parsed == parse_topic(topic)
        data == json_loads(payload_raw)
        returns(why) ==
            /\ Tick
            /\ resp' = Dropped(why)
            /\ UNCHANGED <<devices, releases, rollouts, attempts, events, sess, base,
                           collector>>
    IN /\ collector.state = "running"
       /\ IF parsed = Null THEN returns("unsupported topic")
          ELSE IF data = Null THEN returns("not JSON")
          ELSE IF data[1].py # "dict" THEN returns("not an object")
          ELSE LET system == parsed[1].system
                   topic_type == parsed[1].topic_type
                   telemetry == \/ topic_type = "data"
                                \/ topic_type \in {"status", "config"} /\ system = "edge"
                   ota == StartsWithOta(topic_type) /\ system = "edge"
               IN IF ~(telemetry \/ ota) THEN returns("unhandled")
                  ELSE IF ~storage_ok
                  THEN /\ Tick
                       /\ collector' = OnException(collector)
                       /\ resp' = Dropped("exception")
                       /\ UNCHANGED <<devices, releases, rollouts, attempts, events,
                                      sess, base>>
                  ELSE IF telemetry THEN returns("telemetry")
                  ELSE handle_ota_message(parsed[1].device_id, StripOta(topic_type),
                                          data[1].v)

Topics ==
    {"paku/edge/d1/ota/status", "paku/edge/d1/ota/progress", "paku/edge/d1/ota/result",
     "paku/edge/esp32-002/ota/result", "paku/edge/d1/ota/command",
     "paku/ruuvi/d1/ota/status", "paku/edge/d1/cfg/result",
     "paku/edge/d1/ota/status/now", "paku/edge/d1/status", "paku/edge/d1/ota"}

Bodies ==
    {"{\"target_version\": \"1.1.0\"}",
     "{\"state\": \"installing\", \"percent\": 90, \"target_version\": \"1.1.0\"}",
     "{\"success\": true, \"target_version\": \"1.1.0\"}",
     "{\"success\": false, \"message\": \"checksum mismatch\"}",
     "[\"d1\"]",
     "not json"}

\* attempts and audit events left by earlier status reports and
\* acknowledgements, the clock reading 0 when the run begins
Histories ==
    {[attempts |-> <<>>, events |-> <<>>],
     [attempts |-> <<ReportRow(<<>>, "d1", "1.0.0", "failed", Some(ErrText), Null, -2),
                     [AckRow(<<>>, "d1", "1.1.0", -1) EXCEPT !.id = 2]>>,
      events |-> ReportEvents("d1", "1.0.0", "failed", Some(ErrText))
                 \o <<Event("update_started", Some("d1"), "1.1.0",
                            Some([target_version |-> "1.1.0"]))>>],
     [attempts |-> <<AckRow(<<>>, "d1", "1.0.0", -2),
                     [AckRow(<<>>, "esp32-002", "1.1.0", -1) EXCEPT !.id = 2]>>,
      events |-> <<Event("update_started", Some("d1"), "1.0.0",
                         Some([version |-> "1.0.0"])),
                   Event("update_started", Some("esp32-002"), "1.1.0",
                         Some([target_version |-> "1.1.0"]))>>],
     [attempts |-> <<AckRow(<<>>, "d1", "1.1.0", -2),
                     [ReportRow(<<>>, "d1", "1.1.0", "installing", Null, Some(80), -1)
                         EXCEPT !.id = 2]>>,
      events |-> <<Event("update_started", Some("d1"), "1.1.0",
                         Some([target_version |-> "1.1.0"]))>>]}

InitCollector ==
    /\ devices = [d \in Devices |-> Some([device_model |-> "esp32",
                                          current_firmware_version |-> "1.0.0"])]
    /\ releases = <<Release("1.0.0", "esp32"), Release("1.1.0", "esp32")>>
    /\ rollouts = <<>>
    /\ \E h \in Histories : attempts = h.attempts /\ events = h.events
    /\ now = 0
    /\ resp = NoResponse
    /\ sess = Idle
    /\ base = <<>>
    /\ collector = Started

Deliver == \E topic \in Topics, body \in Bodies : on_message(topic, body, TRUE)

DeliverStorageError == \E topic \in Topics, body \in Bodies : on_message(topic, body, FALSE)

NextCollector == Deliver \/ DeliverStorageError

SpecCollector == InitCollector /\ [][NextCollector]_vars

----------------------------------------------------------------------------
(* The health probe of the REST service *)

health_check_always_healthy(reachable) ==
    /\ Tick
    /\ resp' = [Response("health", "", 200, FALSE, Null) EXCEPT !.detail = Some("healthy")]
    /\ UNCHANGED <<devices, releases, rollouts, attempts, events, sess, base, collector>>

\* GET /health; reachable says whether get_db_connection() returns or raises
health_check(reachable) ==
    /\ Tick
    /\ resp' = IF reachable
               THEN [Response("health", "", 200, FALSE, Null)
                        EXCEPT !.detail = Some("healthy")]
               ELSE [Response("health", "", 503, FALSE, Null)
                        EXCEPT !.detail = Some("Service unavailable")]
    /\ UNCHANGED <<devices, releases, rollouts, attempts, events, sess, base, collector>>

Health == \E reachable \in BOOLEAN : health_check(reachable)

NextHealth == Check \/ Report \/ Health

SpecHealth == Init /\ [][NextHealth]_vars

----------------------------------------------------------------------------
(* Properties *)

Rows == 1..Len(attempts)

NonTerminal == {"pending", "downloading", "downloaded", "installing"}

\* the device's current attempt (greatest reported_at) exists and is not terminal
CurrentNonTerminal(d) ==
    /\ LatestIds(attempts, d) # {}
    /\ \A id \in LatestIds(attempts, d) : attempts[id].status \in NonTerminal

\* in rows, the device's current attempt has status s and was completed at t
CurrentIs(rows, d, s, t) ==
    /\ LatestIds(rows, d) # {}
    /\ \A id \in LatestIds(rows, d) :
          rows[id].status = s /\ rows[id].completed_at = Some(t)

\* C1: an attempt whose status is success or failed is never taken back to
\* a non-terminal status by a status report or an event-stream message.
C1_TerminalNeverReopened ==
    [][\A i \in Rows :
          attempts[i].status \in {"success", "failed"}
              => attempts'[i].status \notin NonTerminal]_vars

\* C2: every device has at most one update attempt whose status is
\* non-terminal.
C2_OneActiveAttempt ==
    \A d \in Devices :
        Cardinality({i \in Rows : /\ attempts[i].device_id = d
                                  /\ attempts[i].status \in NonTerminal}) <= 1

\* C4: after a firmware check that answered update_available=true, a pending
\* attempt for (the device, the latest version) is in device_update_status.
C4_OfferCreatesPendingAttempt ==
    (resp.op = "check" /\ resp.update_available)
        => \E i \in Rows : /\ attempts[i].device_id = resp.device_id
                            /\ attempts[i].firmware_version = resp.latest_version[1]
                            /\ attempts[i].status = "pending"

\* C7: a status report of success for a device whose current attempt is
\* pending is accepted, turns that attempt into success with completed_at
\* set, and sets the registry's firmware version to the attempt's version.
C7_PendingToSuccessByReport ==
    [][\A d \in Devices, v \in Versions :
          (report_update_status(d, v, "success", Null, Null)
           /\ LatestIds(attempts, d) # {}
           /\ \A id \in LatestIds(attempts, d) : attempts[id].status = "pending")
              => /\ resp'.http = 200
                 /\ \A id \in LatestIds(attempts, d) :
                       /\ attempts'[id].status = "success"
                       /\ attempts'[id].completed_at # Null
                       /\ devices'[d] # Null
                       /\ devices'[d][1].current_firmware_version
                              = attempts[id].firmware_version]_vars

\* C8: a result message with success=false and message text m, for a device
\* whose current attempt is non-terminal, leaves that attempt failed with
\* error message m and completed_at set.
C8_FailedResultRecorded ==
    [][\A d \in Devices, p \in ResultPayloads :
          (handle_ota_result(d, p)
           /\ "success" \in DOMAIN p /\ ~p.success /\ "message" \in DOMAIN p
           /\ CurrentNonTerminal(d))
              => \A id \in LatestIds(attempts, d) :
                    /\ attempts'[id].status = "failed"
                    /\ attempts'[id].error_message = Some(p.message)
                    /\ attempts'[id].completed_at = Some(now')]_vars

\* a failed result with its message has just been applied to an attempt
\* that was started earlier
C8_Witness ==
    /\ resp.op = "ota_result"
    /\ \E i \in Rows : /\ attempts[i].device_id = resp.device_id
                        /\ attempts[i].status = "failed"
                        /\ attempts[i].error_message = Some(ErrText)
                        /\ attempts[i].started_at # Null
                        /\ attempts[i].started_at # attempts[i].completed_at
                        /\ attempts[i].completed_at = Some(now)

C10_RepeatedDownloadingIdempotent ==
    [][\A d \in Devices, v \in Versions :
          \A x \in ReportExtras("downloading") :
             (/\ report_update_status(d, v, "downloading", x[1], x[2])
              /\ resp = Response("report", d, 200, FALSE, Null)
              /\ Len(attempts) > 0
              /\ attempts[Len(attempts)].device_id = d
              /\ attempts[Len(attempts)].firmware_version = v
              /\ attempts[Len(attempts)].status = "downloading"
              /\ attempts[Len(attempts)].reported_at = Some(now))
                 => /\ Len(attempts') = Len(attempts)
                    /\ \A i \in Rows :
                          attempts'[i] = [attempts[i] EXCEPT
                                            !.reported_at = attempts'[i].reported_at]]_vars

\* the policy that governs (v, m): the most recently created active one
Governs(k, v, m) ==
    /\ rollouts[k].firmware_version = v
    /\ rollouts[k].device_model = m
    /\ rollouts[k].is_active
    /\ \A l \in (k + 1)..Len(rollouts) :
          ~(/\ rollouts[l].firmware_version = v
            /\ rollouts[l].device_model = m
            /\ rollouts[l].is_active)

\* release i is the most recently created release of model m
IsLatest(i, m) ==
    /\ releases[i].device_model = m
    /\ \A j \in (i + 1)..Len(releases) : releases[j].device_model # m

\* C5: a firmware check answers update_available=true exactly when a release
\* exists for the model, the latest one differs from the reported version,
\* an active policy exists for it, and the device is eligible under the most
\* recently created active policy.
C5_OfferIff ==
    [][\A d \in Devices, m \in Models, cur \in Versions :
          check_firmware_update(d, m, cur)
              => (resp'.update_available
                    <=> \E i \in 1..Len(releases) :
                          /\ IsLatest(i, m)
                          /\ releases[i].version # cur
                          /\ \E k \in 1..Len(rollouts) :
                                /\ Governs(k, releases[i].version, m)
                                /\ _check_device_eligibility(d,
                                       rollouts[k].target_type,
                                       rollouts[k].target_filter,
                                       rollouts[k].rollout_percentage))]_vars

\* a check has just offered an update under a policy an administrator created
C5_Witness ==
    /\ resp.op = "check"
    /\ resp.update_available
    /\ Len(rollouts) > 0

\* C6: with a latest release but no active policy for it, a firmware check
\* answers update_available=false, creates no attempt and logs no event.
C6_NoActivePolicyNoOffer ==
    [][\A d \in Devices, m \in Models, cur \in Versions :
          (/\ check_firmware_update(d, m, cur)
           /\ \E i \in 1..Len(releases) :
                 /\ IsLatest(i, m)
                 /\ ~\E k \in 1..Len(rollouts) : Governs(k, releases[i].version, m))
              => /\ ~resp'.update_available
                 /\ attempts' = attempts
                 /\ events' = events]_vars

\* a device on 1.0.0 has just checked while the only policy for 1.1.0 is
\* inactive, and got no offer
C6_Witness ==
    /\ resp.op = "check"
    /\ ~resp.update_available
    /\ resp.latest_version = Some("1.1.0")
    /\ devices[resp.device_id][1].current_firmware_version = "1.0.0"
    /\ \E k \in 1..Len(rollouts) : rollouts[k].firmware_version = "1.1.0"
    /\ \A k \in 1..Len(rollouts) : ~rollouts[k].is_active

\* the attempts table without its clock readings, and each device's current attempt
Obs(rows) ==
    <<[i \in 1..Len(rows) |->
          [id |-> rows[i].id, device_id |-> rows[i].device_id,
           firmware_version |-> rows[i].firmware_version,
           status |-> rows[i].status, error_message |-> rows[i].error_message,
           progress_percent |-> rows[i].progress_percent,
           started |-> rows[i].started_at # Null,
           completed |-> rows[i].completed_at # Null]],
      [d \in Devices |-> LatestIds(rows, d)]>>

\* the tables a request leaves when its handler runs alone at time t
RowsAfter(rows, r, t) ==
    IF r.kind = "check" THEN {rows}
    ELSE IF r.kind = "status"
    THEN {Append(rows, AckRow(rows, r.device_id, PayloadVersion(r.body), t))}
    ELSE IF r.kind = "report"
    THEN {Append(rows, ReportRow(rows, r.device_id, r.body.firmware_version,
                     r.body.status, r.body.error_message,
                     r.body.progress_percent, t))}
    ELSE IF LatestIds(rows, r.device_id) = {} THEN {rows}
    ELSE IF r.kind = "progress"
         THEN {ProgressUpdate(rows, id, r.body, t) : id \in LatestIds(rows, r.device_id)}
         ELSE {ResultUpdate(rows, id, r.body, t) : id \in LatestIds(rows, r.device_id)}

\* what the two requests leave when handled one after the other, either way round
SerialOutcomes ==
    LET ra == sess["a"].req[1]
        rb == sess["b"].req[1]
    IN {Obs(t2) : t2 \in UNION {RowsAfter(t1, rb, 3) : t1 \in RowsAfter(base, ra, 2)}}
       \cup {Obs(t2) : t2 \in UNION {RowsAfter(t1, ra, 3) : t1 \in RowsAfter(base, rb, 2)}}

\* C3: when two status updates have run concurrently, the attempts stored
\* and each device's current attempt are what handling the two one after
\* the other, in one of the two orders, would have left.
C3_SerialOutcome ==
    (\A s \in Sessions : Done(s)) => Obs(attempts) \in SerialOutcomes

\* a progress message and a status report of success for the same device
\* have both finished; the progress ran between the report's INSERT (at 2)
\* and its last statement (at 5), on the row the report inserted
C3_Witness ==
    /\ \A s \in Sessions : Done(s)
    /\ sess["a"].req[1].kind = "report"
    /\ sess["b"].req[1].kind = "progress"
    /\ sess["a"].req[1].device_id = sess["b"].req[1].device_id
    /\ base # <<>>
    /\ base[1].device_id = sess["a"].req[1].device_id
    /\ Len(attempts) = 2
    /\ attempts[2].status = "installing"
    /\ sess["a"].req[1].body.status = "success"
    /\ attempts[2].completed_at = Some(2)
    /\ attempts[2].reported_at \in {Some(3), Some(4)}
    /\ now = 5

\* the pending attempts of device d in rows
PendingOf(rows, d) ==
    {i \in 1..Len(rows) : rows[i].device_id = d /\ rows[i].status = "pending"}

\* the attempts of device d in rows
AttemptsOf(rows, d) == {i \in 1..Len(rows) : rows[i].device_id = d}

Terminal == {"success", "failed", "rolled_back"}

\* C11: an acknowledgement delivered again for the same device and version,
\* right after the first one, leaves the device with exactly one pending
\* attempt, as one delivery does.
C11_AckIdempotent ==
    [][\A d \in Devices, p \in AckPayloads :
          (/\ handle_ota_status(d, p)
           /\ resp = Response("ota_status", d, 0, FALSE, Null)
           /\ Cardinality(PendingOf(attempts, d)) = 1
           /\ \A i \in PendingOf(attempts, d) :
                 attempts[i].firmware_version = PayloadVersion(p))
              => Cardinality(PendingOf(attempts', d)) = 1]_vars

\* C12: a progress message without a percentage, or a result message without
\* a success flag, is dropped: device_update_status is left as it was.
C12_MalformedDropped ==
    [][/\ \A d \in Devices, p \in ProgressPayloads :
            (handle_ota_progress(d, p) /\ "percent" \notin DOMAIN p)
                => attempts' = attempts
       /\ \A d \in Devices, p \in ResultPayloads :
            (handle_ota_result(d, p) /\ "success" \notin DOMAIN p)
                => attempts' = attempts]_vars

\* C13: a status report, progress or result for a device without any attempt
\* is not answered as a success (status report) and leaves the device
\* without any attempt.
C13_NoAttemptUnknownDevice ==
    [][\A d \in Devices :
          AttemptsOf(attempts, d) = {}
              => /\ \A v \in Versions, s \in Statuses : \A x \in ReportExtras(s) :
                       (report_update_status(d, v, s, x[1], x[2]) /\ resp'.http # 422)
                           => (resp'.http # 200 /\ AttemptsOf(attempts', d) = {})
                 /\ \A p \in ProgressPayloads :
                       handle_ota_progress(d, p) => AttemptsOf(attempts', d) = {}
                 /\ \A p \in ResultPayloads :
                       handle_ota_result(d, p) => AttemptsOf(attempts', d) = {}]_vars

\* C14: an attempt has completed_at set exactly when its status is success,
\* failed or rolled_back.
C14_CompletedIffTerminal ==
    \A i \in Rows : (attempts[i].completed_at # Null) <=> (attempts[i].status \in Terminal)

\* C15: after a result message with success=true for a registered device
\* whose current attempt is non-terminal, the registry's firmware version of
\* the device is the version of that attempt.
C15_ResultSuccessSetsRegistry ==
    [][\A d \in Devices, p \in ResultPayloads :
          (/\ handle_ota_result(d, p)
           /\ Get(p, "success", FALSE)
           /\ CurrentNonTerminal(d)
           /\ devices[d] # Null)
              => \A id \in LatestIds(attempts, d) :
                    devices'[d][1].current_firmware_version
                        = attempts[id].firmware_version]_vars

\* C16: no attempt ever has status rolled_back, since this model has no
\* administrative action on attempts, only the two adapters.
C16_NeverRolledBack ==
    \A i \in Rows : attempts[i].status # "rolled_back"

\* C17: a status report whose status is outside the seven accepted values is
\* answered 422 and writes nothing: attempts, registry and audit events are
\* left as they were.
C17_BadStatusRejected ==
    [][\A d \in Devices, v \in Versions, s \in StatusInputs \ Statuses :
          \A x \in ReportExtras(s) :
              report_update_status(d, v, s, x[1], x[2])
                  => /\ resp'.http = 422
                     /\ attempts' = attempts
                     /\ devices' = devices
                     /\ events' = events]_vars

\* a report has just been refused for its status while the tables already
\* held an attempt and an audit event
C17_Witness ==
    /\ resp.op = "report"
    /\ resp.http = 422
    /\ resp.detail = Some("status")
    /\ attempts # <<>>
    /\ events # <<>>

\* C18: when the audit INSERT of a success or failed report fails, the
\* attempt row and the registry version written before it stay, and the
\* caller is still answered 200; a result message whose audit INSERT fails
\* keeps its update of the attempt.
C18_AuditFailureNonFatal ==
    [][/\ \A d \in Devices, v \in Versions, s \in {"success", "failed"} :
            \A x \in ReportExtras(s) :
                report_update_status_event_error(d, v, s, x[1])
                    => /\ CurrentIs(attempts', d, s, now')
                       /\ (s = "success" /\ devices[d] # Null)
                              => devices'[d][1].current_firmware_version = v
                       /\ resp'.http = 200
       /\ \A d \in Devices, p \in ResultPayloads :
            (handle_ota_result_event_error(d, p) /\ CurrentNonTerminal(d))
                => CurrentIs(attempts', d,
                             IF Get(p, "success", FALSE) THEN "success" ELSE "failed",
                             now')]_vars

\* C20: _percentage_match is monotone in the percentage: when the policy in
\* force has percentage p1 and a policy with percentage p2 >= p1 replaces
\* it, every identifier matched at p1 is matched at p2, and every device
\* eligible under the old policy is eligible under the new one.
C20_PercentageMonotone ==
    [][\A p2 \in Percentages :
          RaisePercentage(p2)
              => LET old == ActiveRollout("1.1.0", "esp32")[1]
                     p1 == old.rollout_percentage
                 IN \A id \in HashIds :
                       /\ _percentage_match(id, p1) => _percentage_match(id, p2)
                       /\ _check_device_eligibility(id, old.target_type,
                              old.target_filter, p1)
                            => _check_device_eligibility(id, old.target_type,
                                   old.target_filter, p2)]_vars

\* a policy that matched esp32-002 by its hash bucket has been replaced by
\* one with a larger percentage, still below 100
C20_Witness ==
    /\ resp.op = "rollout"
    /\ Len(rollouts) = 2
    /\ rollouts[1].rollout_percentage \in 1..99
    /\ _percentage_match("esp32-002", rollouts[1].rollout_percentage)
    /\ rollouts[2].rollout_percentage > rollouts[1].rollout_percentage
    /\ rollouts[2].rollout_percentage < 100

\* the attempts of device d in rows, in the order of their ids
DevSeq(rows, d) == SelectSeq(rows, LAMBDA row : row.device_id = d)

\* the attempts of device d without ids and clock readings, and which of
\* them is the current one
DevObs(rows, d) ==
    LET q == DevSeq(rows, d)
    IN <<[i \in 1..Len(q) |->
             [firmware_version |-> q[i].firmware_version,
              status |-> q[i].status, error_message |-> q[i].error_message,
              progress_percent |-> q[i].progress_percent,
              started |-> q[i].started_at # Null,
              completed |-> q[i].completed_at # Null]],
         LatestIds(q, d)>>

\* C19: a statement run for device A leaves every attempt and the registry
\* entry of every other device B as they were; and when two operations for
\* two different devices have run interleaved, each device's attempts are
\* what its own operation alone would have left.
C19_DevicesIndependent ==
    /\ [][\A s \in Sessions :
             sess'[s] # sess[s]
                 => \A e \in Devices \ {sess[s].req[1].device_id} :
                       /\ devices'[e] = devices[e]
                       /\ DevSeq(attempts', e) = DevSeq(attempts, e)]_vars
    /\ []((\A s \in Sessions : Done(s))
             => \A s \in Sessions :
                   LET r == sess[s].req[1]
                   IN DevObs(attempts, r.device_id)
                          \in {DevObs(t, r.device_id) : t \in RowsAfter(base, r, 2)})

\* a status report of success for d1 and a result for esp32-002 have both
\* finished, the result's UPDATE (at 3) having run between the report's
\* INSERT (at 2) and its later statements; both devices had an attempt before
C19_Witness ==
    /\ \A s \in Sessions : Done(s)
    /\ sess["a"].req[1].kind = "report"
    /\ sess["a"].req[1].body.status = "success"
    /\ sess["b"].req[1].kind = "result"
    /\ Len(base) = 2
    /\ Len(attempts) = 3
    /\ attempts[3].device_id = "d1"
    /\ attempts[3].completed_at = Some(2)
    /\ \E i \in 1..2 : /\ attempts[i].device_id = "esp32-002"
                         /\ attempts[i].completed_at = Some(3)
    /\ now = 6

\* percentages at and beyond the two ends of the range
BoundaryPercentages == {-1, 0, 100, 101}

\* C21: _percentage_match is true for every identifier when the percentage
\* is 100 or more and false for every identifier when it is 0 or less; a
\* check under a percentage policy at 100 offers the update to a device on
\* an older version, and one under a policy at 0 offers nothing.
C21_PercentageBoundaries ==
    /\ [](\A id \in HashIds, p \in BoundaryPercentages :
             /\ p >= 100 => _percentage_match(id, p)
             /\ p <= 0 => ~_percentage_match(id, p))
    /\ [][\A d \in Devices, m \in Models, cur \in Versions :
             check_firmware_update(d, m, cur)
                 => LET p == ActiveRollout("1.1.0", m)[1].rollout_percentage
                    IN /\ (p >= 100 /\ cur # "1.1.0") => resp'.update_available
                       /\ p <= 0 => ~resp'.update_available]_vars

\* d1, whose bucket 85 kept it out at 85 percent, has just been offered the
\* update under the policy raised to 100
C21_Witness ==
    /\ resp.op = "check"
    /\ resp.device_id = "d1"
    /\ resp.update_available
    /\ Len(rollouts) = 2
    /\ rollouts[1].rollout_percentage = 85
    /\ rollouts[2].rollout_percentage = 100

\* the policy for 1.1.0 in force
Policy == ActiveRollout("1.1.0", "esp32")[1]

\* the device-id list of a filter that is a JSON object (as text or already
\* parsed) holding one under "device_ids"; <<>> for every other filter
DeviceIdList(tf) ==
    IF tf = Null THEN Null
    ELSE LET obj == IF tf[1].py = "str" THEN json_loads(tf[1].v) ELSE tf
         IN IF obj = Null THEN Null
            ELSE IF obj[1].py # "dict" THEN Null
            ELSE IF "device_ids" \notin DOMAIN obj[1].v THEN Null
            ELSE IF obj[1].v.device_ids.py # "list" THEN Null
            ELSE Some(obj[1].v.device_ids.v)

\* C23: under a specific policy whose filter holds a device-id list, a
\* device is eligible exactly when its identifier is in the list, whatever
\* the percentage (0 included); a check by a device on an older version
\* offers the update exactly to the listed devices.
C23_SpecificIsMembership ==
    [][\A d \in Devices, m \in Models, cur \in Versions :
          (/\ check_firmware_update(d, m, cur)
           /\ Policy.target_type = "specific"
           /\ DeviceIdList(Policy.target_filter) # Null)
              => LET ids == DeviceIdList(Policy.target_filter)[1]
                 IN /\ cur # "1.1.0" => (resp'.update_available <=> d \in ids)
                    /\ \A id \in HashIds \cup Devices, p \in Percentages :
                          _check_device_eligibility(id, "specific",
                              Policy.target_filter, p) <=> id \in ids]_vars

\* d1, listed in a specific policy at 0 percent, has just been offered the
\* update
C23_Witness ==
    /\ resp.op = "check"
    /\ resp.device_id = "d1"
    /\ resp.update_available
    /\ Policy.target_type = "specific"
    /\ Policy.rollout_percentage = 0
    /\ DeviceIdList(Policy.target_filter) = Some({"d1", "d2"})

\* C24: under a group policy a device without group tags in the registry
\* is not eligible, also at 100 percent; no handler stores group tags, so
\* no check under a group policy offers an update.
C24_GroupNeedsMembership ==
    [][\A d \in Devices, m \in Models, cur \in Versions :
          (check_firmware_update(d, m, cur) /\ Policy.target_type = "group")
              => ~resp'.update_available]_vars

\* C25: under an unrecognized target type, and under a specific policy
\* whose filter is missing, is not valid JSON or is not an object holding a
\* device-id list, no device is eligible and a check offers nothing.
C25_FailsClosed ==
    [][\A d \in Devices, m \in Models, cur \in Versions :
          (/\ check_firmware_update(d, m, cur)
           /\ \/ Policy.target_type \notin {"all", "canary", "specific", "group"}
              \/ /\ Policy.target_type = "specific"
                 /\ DeviceIdList(Policy.target_filter) = Null)
              => /\ ~resp'.update_available
                 /\ \A id \in HashIds \cup Devices :
                       ~_check_device_eligibility(id, Policy.target_type,
                            Policy.target_filter, Policy.rollout_percentage)]_vars

\* C26: among the policies for the latest release of the model, a check
\* decides by exactly the newest active one: the device is offered the
\* update exactly when that policy makes it eligible, whatever older active
\* policies and inactive policies would decide.
C26_NewestActivePolicyDecides ==
    [][\A d \in Devices, m \in Models, cur \in Versions :
          check_firmware_update(d, m, cur)
              => \A i \in 1..Len(releases), k \in 1..Len(rollouts) :
                    (/\ IsLatest(i, m)
                     /\ releases[i].version # cur
                     /\ Governs(k, releases[i].version, m))
                        => (resp'.update_available
                              <=> _check_device_eligibility(d,
                                      rollouts[k].target_type,
                                      rollouts[k].target_filter,
                                      rollouts[k].rollout_percentage))]_vars

\* d1 has just been refused under the canary policy at 50 percent, while an
\* older active policy and a newer inactive one, for the same firmware,
\* would both have let it in
C26_Witness ==
    /\ resp.op = "check"
    /\ resp.device_id = "d1"
    /\ ~resp.update_available
    /\ devices["d1"][1].current_firmware_version = "1.0.0"
    /\ Len(rollouts) = 3
    /\ \A k \in 1..3 : /\ rollouts[k].firmware_version = "1.1.0"
                         /\ rollouts[k].device_model = "esp32"
    /\ rollouts[1].is_active /\ rollouts[1].rollout_percentage = 100
    /\ rollouts[2].is_active /\ rollouts[2].target_type = "canary"
    /\ ~rollouts[3].is_active /\ rollouts[3].rollout_percentage = 100

\* the phase label contains the word, letter case aside, for the labels
\* that progress messages carry here
PhaseContains(label, word) ==
    CASE word = "install" -> label \in {"installing", "installing firmware"}
      [] word = "verify" -> label \in {"Verifying"}

\* the status the phase label of a progress message stands for
PhaseStatus(payload) ==
    LET label == Get(payload, "state", "")
    IN IF PhaseContains(label, "install") THEN "installing"
       ELSE IF PhaseContains(label, "verify") THEN "downloaded"
       ELSE "downloading"

\* C27: a progress message sets the status of the device's current attempt
\* by its phase label: installing when the label contains "install",
\* downloaded when it contains "verify", downloading otherwise.
C27_PhaseMapsToStatus ==
    [][\A d \in Devices, p \in ProgressPayloads :
          (handle_ota_progress(d, p) /\ CurrentNonTerminal(d))
              => \E id \in LatestIds(attempts, d) :
                    attempts'[id].status = PhaseStatus(p)]_vars

\* C28: the progress percentage of every attempt is absent or within 0..100.
C28_ProgressWithinRange ==
    \A i \in Rows :
        attempts[i].progress_percent # Null
            => attempts[i].progress_percent[1] \in 0..100

\* C30: after a firmware check or an accepted status report of a device,
\* the registry has an entry for it, and after a check the entry's firmware
\* version is the one the device reported; no entry is ever removed.
C30_RegistryAfterFirstContact ==
    [][/\ \A d \in Devices, m \in Models, cur \in Versions :
            check_firmware_update(d, m, cur)
                => /\ devices'[d] # Null
                   /\ devices'[d][1].current_firmware_version = cur
       /\ \A d \in Devices, v \in Versions, s \in Statuses :
            \A x \in ReportExtras(s) :
                (report_update_status(d, v, s, x[1], x[2]) /\ resp'.http = 200)
                    => devices'[d] # Null
       /\ \A d \in Devices : devices[d] # Null => devices'[d] # Null]_vars

C31_HealthyIffReachable ==
    [][\A reachable \in BOOLEAN :
          health_check(reachable) =>
              /\ (resp'.detail = Some("healthy")) <=> reachable
              /\ (resp'.http = 200) <=> reachable
              /\ ~reachable => resp'.http = 503]_vars

C31_Witness ==
    /\ resp.op = "health"
    /\ resp.http = 503
    /\ resp.detail # Some("healthy")
    /\ \E d \in Devices : devices[d] # Null

\* position of a status on pending, downloading, downloaded, installing, terminal
StatusRank(s) ==
    CASE s = "pending" -> 1
      [] s = "downloading" -> 2
      [] s = "downloaded" -> 3
      [] s = "installing" -> 4
      [] OTHER -> 5

\* C32: the status of an attempt only moves forward along pending,
\* downloading, downloaded, installing, terminal: no handler moves an attempt
\* that is not terminal back to an earlier status.
C32_StatusOnlyForward ==
    [][\A i \in Rows :
          attempts[i].status \in NonTerminal =>
              StatusRank(attempts'[i].status) >= StatusRank(attempts[i].status)]_vars

\* the rows of the attempt table that differ between this state and the next
ChangedRows == {i \in Rows : attempts'[i] # attempts[i]}

\* C33: an event-stream progress or result message for a device changes
\* exactly one attempt, one with the device's greatest reported_at, and
\* leaves every other attempt as it was; the table gets no new row.
C33_OnlyCurrentAttemptChanges ==
    [][\A d \in Devices :
          (resp'.op \in {"ota_progress", "ota_result"} /\ resp'.device_id = d
              /\ AttemptsOf(attempts, d) # {}) =>
              /\ Len(attempts') = Len(attempts)
              /\ \E id \in AttemptsOf(attempts, d) :
                    /\ \A j \in AttemptsOf(attempts, d) :
                          attempts[j].reported_at[1] <= attempts[id].reported_at[1]
                    /\ ChangedRows = {id}]_vars

C33_Witness ==
    /\ resp.op \in {"ota_progress", "ota_result"}
    /\ resp.device_id = "d1"
    /\ Len(attempts) = 2
    /\ attempts[1].device_id = "d1" /\ attempts[2].device_id = "d1"
    /\ attempts[1].reported_at = Some(-2)
    /\ attempts[2].reported_at = Some(now)

\* the audit events appended by the step
Appended == SubSeq(events', Len(events) + 1, Len(events'))

\* the step starts an attempt: the table gets a row that is not terminal
StartsAttempt(d) ==
    /\ Len(attempts') = Len(attempts) + 1
    /\ attempts'[Len(attempts')].device_id = d
    /\ attempts'[Len(attempts')].status \in NonTerminal

\* the step leaves device d with a current attempt in status s that it did
\* not have before, for firmware version v
TransitionTo(d, s, v) ==
    \E id \in LatestIds(attempts', d) :
        /\ attempts'[id].status = s
        /\ attempts'[id].firmware_version = v
        /\ (id \in Rows => attempts[id] # attempts'[id])

\* C34: every state-changing call appends exactly one audit event of the
\* matching kind, carrying the device id and the firmware version of the
\* attempt: update_started when an attempt starts, update_completed on a
\* transition to success, update_failed on a transition to failed; a call
\* that is rejected appends none.
C34_OneAuditEventPerChange ==
    [][/\ events' = events \o Appended
       /\ resp'.http = 422 => Appended = <<>>
       /\ \A d \in Devices :
             resp'.device_id = d /\ resp'.op # "check" =>
                 /\ StartsAttempt(d) =>
                       /\ Len(Appended) = 1
                       /\ Appended[1].event_type = "update_started"
                       /\ Appended[1].device_id = Some(d)
                       /\ Appended[1].firmware_version =
                              attempts'[Len(attempts')].firmware_version
                 /\ \A v \in Versions \cup {"unknown"} :
                       /\ TransitionTo(d, "success", v) =>
                             /\ Len(Appended) = 1
                             /\ Appended[1].event_type = "update_completed"
                             /\ Appended[1].device_id = Some(d)
                             /\ Appended[1].firmware_version = v
                       /\ TransitionTo(d, "failed", v) =>
                             /\ Len(Appended) = 1
                             /\ Appended[1].event_type = "update_failed"
                             /\ Appended[1].device_id = Some(d)
                             /\ Appended[1].firmware_version = v]_vars

\* C35: attempt history and the audit log are append-only: no step removes an
\* attempt (every row keeps its id, device and firmware version) or an audit
\* event, and an audit event is never modified after it is written.
C35_AppendOnly ==
    [][/\ Len(attempts') >= Len(attempts)
       /\ \A i \in Rows :
             /\ attempts'[i].id = attempts[i].id
             /\ attempts'[i].device_id = attempts[i].device_id
             /\ attempts'[i].firmware_version = attempts[i].firmware_version
       /\ Len(events') >= Len(events)
       /\ SubSeq(events', 1, Len(events)) = events]_vars

C35_Witness ==
    /\ Len(attempts) = 2
    /\ Len(events) = 2
    /\ attempts[1].device_id = attempts[2].device_id
    /\ attempts[1].status = "failed"
    /\ attempts[2].status = "pending"
    /\ events[1].event_type = "update_failed"
    /\ events[2].event_type = "update_started"

\* the topic has the shape {site}/edge/{device_id}/ota/{status|progress|result}
OtaShape(topic) ==
    /\ Len(Split(topic)) = 5
    /\ Split(topic)[2] = "edge"
    /\ Split(topic)[4] = "ota"
    /\ Split(topic)[5] \in {"status", "progress", "result"}

OtaOps == {"ota_status", "ota_progress", "ota_result"}

\* C36: only topics of the shape {site}/edge/{device_id}/ota/{status|progress|
\* result} reach the OTA handler, which then works for the device named by
\* the third segment; any other topic, and so a five-segment topic with
\* another sub-kind, another second segment or another fourth segment,
\* writes nothing to the attempt table or the audit log.
C36_OnlyOtaTopicsReachHandler ==
    [][(resp'.op \in OtaOps \/ attempts' # attempts \/ events' # events) =>
       \A topic \in Topics, body \in Bodies, ok \in BOOLEAN :
          on_message(topic, body, ok) =>
              /\ resp'.op \in OtaOps =>
                    OtaShape(topic) /\ resp'.device_id = Split(topic)[3]
              /\ ~OtaShape(topic) =>
                    /\ resp'.op \notin OtaOps
                    /\ attempts' = attempts
                    /\ events' = events
              /\ \A i \in 1..Len(attempts') :
                    (i \notin Rows \/ attempts'[i] # attempts[i]) =>
                        attempts'[i].device_id = Split(topic)[3]]_vars

C36_Witness ==
    /\ now = 2
    /\ resp.op = "ota_result"
    /\ resp.device_id = "esp32-002"
    /\ Len(attempts) = 2
    /\ attempts[1].device_id = "d1" /\ attempts[1].status = "pending"
    /\ attempts[2].status = "success"
    /\ Len(events) = 3

\* the JSON object text decodes to, for the bodies that are one
BodyObject(body) == json_loads(body)[1].v

\* the body is a JSON object that names a firmware version
NamesVersion(body) ==
    /\ json_loads(body) # Null
    /\ json_loads(body)[1].py = "dict"
    /\ {"target_version", "version"} \cap DOMAIN BodyObject(body) # {}

\* C37: an event-stream progress or result message that names firmware
\* version V never changes the status, progress or completion of an attempt
\* recorded for a different version of the same device.
C37_OtherVersionUntouched ==
    [][\A topic \in Topics, body \in Bodies :
          (/\ NamesVersion(body)
           /\ on_message(topic, body, TRUE)
           /\ resp'.op \in {"ota_progress", "ota_result"}) =>
              \A i \in Rows :
                  attempts[i].firmware_version # PayloadVersion(BodyObject(body)) =>
                      /\ attempts'[i].status = attempts[i].status
                      /\ attempts'[i].progress_percent = attempts[i].progress_percent
                      /\ attempts'[i].completed_at = attempts[i].completed_at]_vars

\* C38: a status report with any status other than success, and an
\* event-stream acknowledgement, progress message or failed result, leave
\* the current firmware version of the device in the registry unchanged.
C38_RegistryVersionKept ==
    [][(\/ /\ resp'.op = "report"
           /\ resp'.http = 200
           /\ attempts'[Len(attempts')].status # "success"
        \/ resp'.op \in {"ota_status", "ota_progress"}
        \/ /\ resp'.op = "ota_result"
           /\ events'[Len(events')].event_type = "update_failed") =>
          \A d \in Devices :
              /\ (devices'[d] = Null) <=> (devices[d] = Null)
              /\ devices[d] # Null =>
                    devices'[d][1].current_firmware_version =
                        devices[d][1].current_firmware_version]_vars

C38_Witness ==
    /\ resp.op = "report"
    /\ resp.http = 200
    /\ resp.device_id = "d1"
    /\ devices["d1"] # Null
    /\ devices["d1"][1].current_firmware_version = "1.0.0"
    /\ Len(attempts) = 2
    /\ attempts[1].device_id = "d1" /\ attempts[1].status = "installing"
    /\ attempts[2].device_id = "d1" /\ attempts[2].status = "failed"
    /\ attempts[2].firmware_version = "1.1.0"

\* C39: a storage error raised while the collector handles a message stays
\* inside on_message: the callback logs it and returns, the network loop
\* keeps running, and a message delivered afterwards is handled.
C39_StorageErrorContained ==
    /\ [](/\ collector.state = "running"
          /\ (collector.errors > 0 /\ now < MaxTime) => ENABLED Deliver)
    /\ [][\A topic \in Topics, body \in Bodies :
             (on_message(topic, body, FALSE) /\ resp'.detail = Some("exception")) =>
                 /\ collector'.state = "running"
                 /\ collector'.errors = collector.errors + 1
                 /\ attempts' = attempts
                 /\ events' = events]_vars

C39_Witness ==
    /\ collector.errors = 1
    /\ collector.state = "running"
    /\ now = 2
    /\ resp.op = "ota_status"
    /\ Len(attempts) = 1
    /\ attempts[1].started_at = Some(2)
    /\ Len(events) = 1

====
